---- MODULE Spec2Model ----
(***************************************************************************)
(* Model of langchain/src/text_splitter.ts: the TextSplitter constructor,  *)
(* TextSplitter.mergeSplits, RecursiveCharacterTextSplitter.splitText and  *)
(* TokenTextSplitter.splitText.                                            *)
(*                                                                         *)
(* A JavaScript string is a sequence of one-character strings, so that     *)
(* length, split, includes, join and trim are computed, not assumed.       *)
(***************************************************************************)
EXTENDS Integers, Sequences, FiniteSets, TLC

\* ------------------------------------------------------------------ bounds
MaxChunk == 3
MaxUnits == 3
MaxUnitLen == 2
MaxText == 4
MaxDepth == 4
MaxTokens == 4
NumCalls == 2
MaxField == 2

\* ----------------------------------------------------------- string model
Alphabet == {"a", " "}
Whitespace == {" "}

Strings(n) == UNION {[1..k -> Alphabet] : k \in 0..n}

Null == <<"null">>

RECURSIVE TrimStart(_)
TrimStart(s) ==
  IF s # <<>> /\ Head(s) \in Whitespace THEN TrimStart(Tail(s)) ELSE s

RECURSIVE TrimEnd(_)
TrimEnd(s) ==
  IF s # <<>> /\ s[Len(s)] \in Whitespace
  THEN TrimEnd(SubSeq(s, 1, Len(s) - 1)) ELSE s

\* String.prototype.trim
Trim(s) == TrimEnd(TrimStart(s))

\* Array.prototype.join
RECURSIVE Join(_, _)
Join(strs, sep) ==
  IF strs = <<>> THEN <<>>
  ELSE IF Len(strs) = 1 THEN strs[1]
  ELSE strs[1] \o sep \o Join(Tail(strs), sep)

\* s occurs in text at (1-based) position p
OccursAt(text, s, p) ==
  /\ p >= 1
  /\ p + Len(s) - 1 <= Len(text)
  /\ SubSeq(text, p, p + Len(s) - 1) = s

\* String.prototype.includes
Includes(text, s) == \E p \in 1..(Len(text) + 1) : OccursAt(text, s, p)

\* String.prototype.split with a non-empty separator
RECURSIVE SplitOn(_, _)
SplitOn(text, sep) ==
  IF ~Includes(text, sep) THEN <<text>>
  ELSE LET p == CHOOSE q \in 1..Len(text) :
                  /\ OccursAt(text, sep, q)
                  /\ \A r \in 1..(q - 1) : ~OccursAt(text, sep, r)
       IN <<SubSeq(text, 1, p - 1)>>
            \o SplitOn(SubSeq(text, p + Len(sep), Len(text)), sep)

\* String.prototype.split("") : one unit per character, [] for ""
SplitChars(text) == [k \in 1..Len(text) |-> <<text[k]>>]

\* lines 177-182 and 220-225: if (separator) split(separator) else split("")
SplitText(text, sep) ==
  IF sep # <<>> THEN SplitOn(text, sep) ELSE SplitChars(text)

RECURSIVE SumLen(_)
SumLen(strs) == IF strs = <<>> THEN 0 ELSE Len(Head(strs)) + SumLen(Tail(strs))

\* ---------------------------------------------------------------- state
VARIABLES
  chunkSize, chunkOverlap,       \* TextSplitterParams of the instance
  pc,                            \* position of the operation under study
  fields,                        \* constructor argument
  splits, separator,             \* mergeSplits arguments
  docs, currentDoc, total, idx,  \* mergeSplits locals (currentDoc holds unit indices)
  warned,                        \* number of console.warn calls
  runs,                          \* history of flushed windows
  text, separators,              \* recursive splitText argument and field
  stack, result,                 \* recursive splitText call frames and return value
  tokenizer, calls, running,     \* TokenTextSplitter instance and its calls
  acquireCount, assignCount      \* getEncoding invocations, tokenizer assignments

cfgVars == <<chunkSize, chunkOverlap, pc>>
ctorVars == <<fields>>
mergeVars == <<splits, separator, docs, currentDoc, total, idx, warned, runs>>
recVars == <<text, separators, stack, result>>
tokVars == <<tokenizer, calls, running, acquireCount, assignCount>>
vars == <<cfgVars, ctorVars, mergeVars, recVars, tokVars>>

\* configurations the constructor accepts, with the sizes the claims cover
ValidConfigs ==
  {c \in [chunkSize : 1..MaxChunk, chunkOverlap : 0..(MaxChunk - 1)] :
     c.chunkOverlap < c.chunkSize}

CtorIdle == fields = <<>>
MergeIdle ==
  /\ splits = <<>> /\ separator = <<>> /\ docs = <<>> /\ currentDoc = <<>>
  /\ total = 0 /\ idx = 1 /\ warned = 0 /\ runs = <<>>
RecIdle == text = <<>> /\ separators = <<>> /\ stack = <<>> /\ result = <<>>
TokIdle ==
  /\ tokenizer = 0 /\ calls = <<>> /\ running = 0
  /\ acquireCount = 0 /\ assignCount = 0

\* ------------------------------------------------ TextSplitter.mergeSplits
\* the strings held by a window of unit indices
Units(window) == [k \in 1..Len(window) |-> splits[window[k]]]

\* private joinDocs
joinDocs(strs, sep) ==
  LET t == Trim(Join(strs, sep)) IN IF t = <<>> THEN Null ELSE t

\* line 122-125
OverflowCond(tot, len, winLen, sepLen, size) ==
  tot + len + (IF winLen > 0 THEN sepLen ELSE 0) > size

\* line 126
WarnCond(tot, size) == tot > size

WhileCondNoEmptyGuard(tot, len, size, overlap) ==
  tot > overlap \/ tot + len > size

\* lines 140-143
WhileCond(tot, len, size, overlap) ==
  tot > overlap \/ (tot + len > size /\ tot > 0)

ShiftFromBack(window) == SubSeq(window, 1, Len(window) - 1)

\* line 145
Shift(window) == Tail(window)

\* line 144
Decrement(tot, len) == tot - len

\* lines 149-150
Push(window, k) == Append(window, k)

PushDoc(ds, doc) == IF doc # Null THEN Append(ds, doc) ELSE ds

InitMerge ==
  /\ \E c \in ValidConfigs :
       chunkSize = c.chunkSize /\ chunkOverlap = c.chunkOverlap
  /\ splits \in UNION {[1..n -> Strings(MaxUnitLen)] : n \in 0..MaxUnits}
  /\ separator \in {<<>>, <<" ">>}
  /\ docs = <<>> /\ currentDoc = <<>> /\ total = 0 /\ idx = 1
  /\ warned = 0 /\ runs = <<>>
  /\ pc = "for"
  /\ CtorIdle /\ RecIdle /\ TokIdle

\* lines 120-136: the unit overflows a non-empty window: warn, flush
LoopFlush ==
  /\ pc = "for" /\ idx <= Len(splits)
  /\ OverflowCond(total, Len(splits[idx]), Len(currentDoc), Len(separator),
                  chunkSize)
  /\ Len(currentDoc) > 0
  /\ warned' = IF WarnCond(total, chunkSize) THEN warned + 1 ELSE warned
  /\ LET doc == joinDocs(Units(currentDoc), separator) IN
       /\ docs' = PushDoc(docs, doc)
       /\ runs' = Append(runs, [units |-> currentDoc, emitted |-> doc # Null])
  /\ pc' = "while"
  /\ UNCHANGED <<chunkSize, chunkOverlap, splits, separator, currentDoc, total,
                 idx, ctorVars, recVars, tokVars>>

\* lines 120-131, 149-150: no flush (it fits, or the window is empty)
LoopPush ==
  /\ pc = "for" /\ idx <= Len(splits)
  /\ LET over == OverflowCond(total, Len(splits[idx]), Len(currentDoc),
                              Len(separator), chunkSize) IN
       /\ ~(over /\ Len(currentDoc) > 0)
       /\ warned' = IF over /\ WarnCond(total, chunkSize)
                    THEN warned + 1 ELSE warned
  /\ currentDoc' = Push(currentDoc, idx)
  /\ total' = total + Len(splits[idx])
  /\ idx' = idx + 1
  /\ UNCHANGED <<chunkSize, chunkOverlap, pc, splits, separator, docs, runs,
                 ctorVars, recVars, tokVars>>

\* lines 140-146: one iteration of the eviction loop; currentDoc[0].length
\* of an empty array throws a TypeError
Evict ==
  /\ pc = "while"
  /\ WhileCond(total, Len(splits[idx]), chunkSize, chunkOverlap)
  /\ IF currentDoc = <<>>
     THEN /\ pc' = "TypeError"
          /\ UNCHANGED <<total, currentDoc>>
     ELSE /\ total' = Decrement(total, Len(splits[currentDoc[1]]))
          /\ currentDoc' = Shift(currentDoc)
          /\ pc' = "while"
  /\ UNCHANGED <<chunkSize, chunkOverlap, splits, separator, docs, idx, warned,
                 runs, ctorVars, recVars, tokVars>>

\* lines 140-150: the eviction loop exits, the unit is appended
EvictExit ==
  /\ pc = "while"
  /\ ~WhileCond(total, Len(splits[idx]), chunkSize, chunkOverlap)
  /\ currentDoc' = Push(currentDoc, idx)
  /\ total' = total + Len(splits[idx])
  /\ idx' = idx + 1
  /\ pc' = "for"
  /\ UNCHANGED <<chunkSize, chunkOverlap, splits, separator, docs, warned,
                 runs, ctorVars, recVars, tokVars>>

\* lines 152-156
FinalFlush ==
  /\ pc = "for" /\ idx > Len(splits)
  /\ LET doc == joinDocs(Units(currentDoc), separator) IN
       /\ docs' = PushDoc(docs, doc)
       /\ runs' = Append(runs, [units |-> currentDoc, emitted |-> doc # Null])
  /\ pc' = "done"
  /\ UNCHANGED <<chunkSize, chunkOverlap, splits, separator, currentDoc, total,
                 idx, warned, ctorVars, recVars, tokVars>>

NextMerge == LoopFlush \/ LoopPush \/ Evict \/ EvictExit \/ FinalFlush

SpecMerge == InitMerge /\ [][NextMerge]_vars

\* mergeSplits as a function of its arguments (lines 116-157), for callers
RECURSIVE EvictLoop(_, _, _, _, _)
EvictLoop(window, tot, len, size, overlap) ==
  IF ~WhileCond(tot, len, size, overlap)
  THEN [window |-> window, total |-> tot, threw |-> FALSE]
  ELSE IF window = <<>>
  THEN [window |-> window, total |-> tot, threw |-> TRUE]
  ELSE EvictLoop(Shift(window), Decrement(tot, Len(window[1])), len, size,
                 overlap)

RECURSIVE MergeFrom(_, _, _, _, _)
MergeFrom(st, strs, sep, size, overlap) ==
  IF strs = <<>> \/ st.threw THEN st
  ELSE LET d == Head(strs)
           flush == /\ OverflowCond(st.total, Len(d), Len(st.window), Len(sep),
                                    size)
                    /\ Len(st.window) > 0
           ev == IF flush
                 THEN EvictLoop(st.window, st.total, Len(d), size, overlap)
                 ELSE [window |-> st.window, total |-> st.total,
                       threw |-> FALSE]
       IN MergeFrom([docs |-> IF flush
                              THEN PushDoc(st.docs, joinDocs(st.window, sep))
                              ELSE st.docs,
                     window |-> Push(ev.window, d),
                     total |-> ev.total + Len(d),
                     threw |-> ev.threw],
                    Tail(strs), sep, size, overlap)

mergeSplits(strs, sep, size, overlap) ==
  LET st == MergeFrom([docs |-> <<>>, window |-> <<>>, total |-> 0,
                       threw |-> FALSE], strs, sep, size, overlap)
  IN [threw |-> st.threw,
      docs |-> IF st.threw THEN st.docs
               ELSE PushDoc(st.docs, joinDocs(st.window, sep))]

\* ------------------------------------------------- mergeSplits: properties
Range(s) == {s[k] : k \in 1..Len(s)}
Last(s) == s[Len(s)]
NonBlank(s) == \E k \in 1..Len(s) : s[k] \notin Whitespace
Contiguous(w) == \A k \in 1..(Len(w) - 1) : w[k + 1] = w[k] + 1
EmittedRuns == SelectSeq(runs, LAMBDA r : r.emitted)

RunsContiguousInOrder ==
  /\ \A r \in 1..Len(runs) : Contiguous(runs[r].units)
  /\ \A r \in 1..(Len(runs) - 1) :
       /\ runs[r].units # <<>> /\ runs[r + 1].units # <<>>
       /\ runs[r].units[1] <= runs[r + 1].units[1]
       /\ Last(runs[r].units) < Last(runs[r + 1].units)
  /\ docs = [r \in 1..Len(EmittedRuns) |->
               Trim(Join(Units(EmittedRuns[r].units), separator))]

\* C3 as stated: every chunk is a contiguous run of units, the runs are in
\* left-to-right order, and every input unit lies in at least one emitted run.
C3_EveryUnitEmitted ==
  pc = "done" =>
    /\ RunsContiguousInOrder
    /\ \A k \in 1..Len(splits) :
         \E r \in 1..Len(EmittedRuns) : k \in Range(EmittedRuns[r].units)

\* C3 amended: every chunk is the trimmed join of a contiguous run of units,
\* the runs are in left-to-right order, every input unit lies in at least one
\* flushed run, and every unit with a non-whitespace character lies in at
\* least one emitted run (a run whose join trims to "" is dropped).
C3_RunsCoverUnits ==
  pc = "done" =>
    /\ RunsContiguousInOrder
    /\ \A k \in 1..Len(splits) :
         /\ \E r \in 1..Len(runs) : k \in Range(runs[r].units)
         /\ NonBlank(splits[k]) =>
              \E r \in 1..Len(EmittedRuns) : k \in Range(EmittedRuns[r].units)

\* two emitted chunks sharing a unit through overlap, and a dropped blank run
C3_Witness ==
  /\ pc = "done"
  /\ Len(EmittedRuns) >= 2
  /\ \E r \in 1..(Len(runs) - 1) :
       /\ runs[r].emitted /\ runs[r + 1].emitted
       /\ runs[r + 1].units[1] <= Last(runs[r].units)
  /\ \E r \in 1..Len(runs) : ~runs[r].emitted /\ runs[r].units # <<>>

\* C6 as stated: when the eviction loop exits after a flush, the units left in
\* the window, joined with the separator, are at most chunkOverlap long.
C6_CarryOverWithinOverlap ==
  (pc = "while" /\ ~WhileCond(total, Len(splits[idx]), chunkSize, chunkOverlap))
    => Len(Join(Units(currentDoc), separator)) <= chunkOverlap

\* C8 as stated: a chunk longer than chunkSize implies a warning in that call,
\* and a unit longer than chunkSize is emitted as its own run with a warning.
C8_OversizedChunkWarned ==
  pc = "done" =>
    /\ (\E k \in 1..Len(docs) : Len(docs[k]) > chunkSize) => warned > 0
    /\ \A k \in 1..Len(splits) :
         Len(splits[k]) > chunkSize =>
           /\ warned > 0
           /\ \E r \in 1..Len(runs) : runs[r].units = <<k>>

\* C10: total is the sum of the lengths of the units in the window and is
\* never negative; the eviction loop never reads currentDoc[0] of an empty
\* window, and every iteration of it shrinks the window.
C10_TotalInv ==
  /\ total = SumLen(Units(currentDoc))
  /\ total >= 0
  /\ pc # "TypeError"
  /\ (pc = "while"
      /\ WhileCond(total, Len(splits[idx]), chunkSize, chunkOverlap))
       => currentDoc # <<>>

C10_TotalTracksWindow ==
  /\ []C10_TotalInv
  /\ [][(pc = "while" /\ pc' = "while")
          => Len(currentDoc') < Len(currentDoc)]_vars

\* the eviction loop has emptied a window that held an empty-string unit
C10_Witness ==
  /\ pc = "while" /\ currentDoc = <<>> /\ total = 0
  /\ \E k \in Range(Last(runs).units) : splits[k] = <<>>
  /\ ~WhileCond(total, Len(splits[idx]), chunkSize, chunkOverlap)

\* the function form used by the callers agrees with the step-by-step run
MergeAgrees ==
  pc = "done" =>
    mergeSplits(splits, separator, chunkSize, chunkOverlap)
      = [threw |-> FALSE, docs |-> docs]

\* --------------------------- RecursiveCharacterTextSplitter.splitText
SeparatorLists == {<< <<>> >>, << <<" ">>, <<>> >>, << <<"a", " ">>, <<" ">>, <<>> >>}

Min(S) == CHOOSE m \in S : \A n \in S : m <= n

\* lines 207-217
SelectSeparator(t, seps) ==
  LET hits == {k \in 1..Len(seps) : seps[k] = <<>> \/ Includes(t, seps[k])}
  IN IF hits = {} THEN seps[Len(seps)] ELSE seps[Min(hits)]

\* lines 204-228: the locals of a call that has reached its for loop
NewFrame(t) ==
  LET sep == SelectSeparator(t, separators)
  IN [text |-> t, separator |-> sep, splits |-> SplitText(t, sep), i |-> 1,
      goodSplits |-> <<>>, finalChunks |-> <<>>]

\* line 230
IsGood(s, size) == Len(s) < size

\* lines 233-237 and 242-245
FlushGood(f) ==
  IF f.goodSplits # <<>>
  THEN LET m == mergeSplits(f.goodSplits, f.separator, chunkSize, chunkOverlap)
       IN [threw |-> m.threw, finalChunks |-> f.finalChunks \o m.docs]
  ELSE [threw |-> FALSE, finalChunks |-> f.finalChunks]

Top == stack[Len(stack)]
SetTop(f) == [stack EXCEPT ![Len(stack)] = f]

InitRec ==
  /\ \E c \in ValidConfigs :
       chunkSize = c.chunkSize /\ chunkOverlap = c.chunkOverlap
  /\ text \in Strings(MaxText)
  /\ separators \in SeparatorLists
  /\ stack = <<>>
  /\ result = <<>>
  /\ pc = "idle"
  /\ CtorIdle /\ MergeIdle /\ TokIdle

\* lines 203-228: splitText(text) is called and reaches its for loop
RecCall ==
  /\ pc = "idle"
  /\ stack' = <<NewFrame(text)>>
  /\ pc' = "running"
  /\ UNCHANGED <<chunkSize, chunkOverlap, text, separators, result,
                 ctorVars, mergeVars, tokVars>>

\* lines 229-231
RecGood ==
  /\ pc = "running" /\ Top.i <= Len(Top.splits)
  /\ IsGood(Top.splits[Top.i], chunkSize)
  /\ stack' = SetTop([Top EXCEPT !.goodSplits = Append(@, Top.splits[Top.i]),
                                 !.i = @ + 1])
  /\ UNCHANGED <<chunkSize, chunkOverlap, pc, text, separators, result,
                 ctorVars, mergeVars, tokVars>>

\* lines 232-238: flush the good units, then call splitText on the unit
RecOversized ==
  /\ pc = "running" /\ Top.i <= Len(Top.splits)
  /\ ~IsGood(Top.splits[Top.i], chunkSize)
  /\ Len(stack) < MaxDepth
  /\ LET fl == FlushGood(Top) IN
       IF fl.threw
       THEN pc' = "TypeError" /\ UNCHANGED stack
       ELSE /\ pc' = pc
            /\ stack' = Append(SetTop([Top EXCEPT !.goodSplits = <<>>,
                                         !.finalChunks = fl.finalChunks]),
                               NewFrame(Top.splits[Top.i]))
  /\ UNCHANGED <<chunkSize, chunkOverlap, text, separators, result,
                 ctorVars, mergeVars, tokVars>>

\* lines 242-246, and 238-239 in the caller
RecReturn ==
  /\ pc = "running" /\ Top.i > Len(Top.splits)
  /\ LET fl == FlushGood(Top) IN
       IF fl.threw
       THEN pc' = "TypeError" /\ UNCHANGED <<stack, result>>
       ELSE IF Len(stack) = 1
       THEN /\ result' = fl.finalChunks
            /\ stack' = <<>>
            /\ pc' = "done"
       ELSE LET caller == stack[Len(stack) - 1] IN
            /\ stack' = [SubSeq(stack, 1, Len(stack) - 1)
                           EXCEPT ![Len(stack) - 1] =
                             [caller EXCEPT
                                !.finalChunks = @ \o fl.finalChunks,
                                !.i = @ + 1]]
            /\ UNCHANGED <<result, pc>>
  /\ UNCHANGED <<chunkSize, chunkOverlap, text, separators,
                 ctorVars, mergeVars, tokVars>>

NextRec == RecCall \/ RecGood \/ RecOversized \/ RecReturn

SpecRec == InitRec /\ [][NextRec]_vars

\* C1 as stated: every output chunk is at most chunkSize long, or is a single
\* character-level unit.
C1_ChunksWithinSize ==
  pc = "done" =>
    \A k \in 1..Len(result) :
      Len(result[k]) <= chunkSize \/ Len(result[k]) = 1

\* C2 as stated: character-level units are always good, so the recursion is
\* never deeper than the separator list length plus one character-level pass.
C2_RecursionBounded ==
  /\ \A f \in 1..Len(stack) :
       stack[f].separator = <<>> =>
         \A k \in 1..Len(stack[f].splits) :
           IsGood(stack[f].splits[k], chunkSize)
  /\ Len(stack) <= Len(separators) + 1

\* ------------------------------------------------ TextSplitter.constructor
DefaultChunkSize == 1000
DefaultChunkOverlap == 200

FieldValues ==
  ((0 - 1)..MaxField)
    \cup {DefaultChunkOverlap - 1, DefaultChunkOverlap, DefaultChunkOverlap + 1,
          DefaultChunkSize - 1, DefaultChunkSize, DefaultChunkSize + 1}

\* Partial<TextSplitterParams>: an absent key is an undefined field
PartialParams ==
  UNION {[D -> FieldValues] : D \in SUBSET {"chunkSize", "chunkOverlap"}}

\* fields?.key ?? current
Coalesce(f, key, current) == IF key \in DOMAIN f THEN f[key] ELSE current

RejectCondStrict(overlap, size) == overlap > size

\* line 24
RejectCond(overlap, size) == overlap >= size

InitCtor ==
  /\ fields \in PartialParams
  /\ chunkSize = DefaultChunkSize
  /\ chunkOverlap = DefaultChunkOverlap
  /\ pc = "new"
  /\ MergeIdle /\ RecIdle /\ TokIdle

\* lines 21-27, the constructor returns
ConstructOk ==
  /\ pc = "new"
  /\ chunkSize' = Coalesce(fields, "chunkSize", chunkSize)
  /\ chunkOverlap' = Coalesce(fields, "chunkOverlap", chunkOverlap)
  /\ ~RejectCond(chunkOverlap', chunkSize')
  /\ pc' = "constructed"
  /\ UNCHANGED <<ctorVars, mergeVars, recVars, tokVars>>

\* lines 21-27, the constructor throws
ConstructThrow ==
  /\ pc = "new"
  /\ chunkSize' = Coalesce(fields, "chunkSize", chunkSize)
  /\ chunkOverlap' = Coalesce(fields, "chunkOverlap", chunkOverlap)
  /\ RejectCond(chunkOverlap', chunkSize')
  /\ pc' = "threw"
  /\ UNCHANGED <<ctorVars, mergeVars, recVars, tokVars>>

NextCtor == ConstructOk \/ ConstructThrow

SpecCtor == InitCtor /\ [][NextCtor]_vars

GivenSize == IF "chunkSize" \in DOMAIN fields THEN fields.chunkSize ELSE 1000
GivenOverlap ==
  IF "chunkOverlap" \in DOMAIN fields THEN fields.chunkOverlap ELSE 200

\* C7: with the defaults 1000 and 200 filled in, construction throws exactly
\* when chunkOverlap >= chunkSize; a constructed splitter has
\* chunkOverlap < chunkSize and a token-window step > 0.
C7_ConstructionValidates ==
  /\ pc = "threw" => GivenOverlap >= GivenSize
  /\ pc = "constructed" =>
       /\ GivenOverlap < GivenSize
       /\ chunkSize = GivenSize /\ chunkOverlap = GivenOverlap
       /\ chunkOverlap < chunkSize
       /\ chunkSize - chunkOverlap > 0
  /\ pc \in {"new", "threw", "constructed"}

\* construction rejected chunkOverlap = chunkSize given only one of the fields
C7_Witness ==
  /\ pc = "threw"
  /\ DOMAIN fields = {"chunkOverlap"}
  /\ fields.chunkOverlap = 1000

\* ------------------------------------------- TokenTextSplitter.splitText
Calls == 1..NumCalls

Min2(a, b) == IF a <= b THEN a ELSE b

\* tokenizer.encode (js-tiktoken): a text of n tokens; a token is identified
\* with its position in the sequence
Encode(n) == [k \in 1..n |-> k]

\* Array.prototype.slice(from, to) for 0 <= from, 0 <= to
Slice(ids, from, to) ==
  LET f == Min2(from, Len(ids))
      t == Min2(to, Len(ids))
  IN IF f >= t THEN <<>> ELSE SubSeq(ids, f + 1, t)

LoopCondOverlapAware(start, n) == start + chunkOverlap < n

\* line 296
LoopCond(start, n) == start < n

NextStartPlusOverlap(start, size, overlap) == start + size + overlap

\* line 299
NextStart(start, size, overlap) == start + size - overlap

NeedsTokenizerAlways(tok) == TRUE

\* line 280
NeedsTokenizer(tok) == tok = 0

IdleCall ==
  [pc |-> "idle", ntok |-> 0, ticket |-> 0, input_ids |-> <<>>,
   start_idx |-> 0, cur_idx |-> 0, chunk_ids |-> <<>>, windows |-> <<>>]

\* lines 284-294
EnterLoop(call, n) ==
  LET ids == Encode(n)
      cur == Min2(0 + chunkSize, Len(ids))
  IN [call EXCEPT !.pc = "loop", !.ntok = n, !.input_ids = ids,
                  !.start_idx = 0, !.cur_idx = cur,
                  !.chunk_ids = Slice(ids, 0, cur), !.windows = <<>>]

InitToken ==
  /\ \E c \in ValidConfigs :
       chunkSize = c.chunkSize /\ chunkOverlap = c.chunkOverlap
  /\ tokenizer = 0
  /\ calls = [c \in Calls |-> IdleCall]
  /\ running = 0
  /\ acquireCount = 0 /\ assignCount = 0
  /\ pc = "constructed"
  /\ CtorIdle /\ MergeIdle /\ RecIdle

\* lines 279-281: splitText(text) finds no tokenizer, invokes getEncoding and
\* suspends at the await
SplitTextAcquire(c) ==
  /\ running = 0 /\ calls[c].pc = "idle"
  /\ NeedsTokenizer(tokenizer)
  /\ \E n \in 0..MaxTokens :
       calls' = [calls EXCEPT ![c] = [@ EXCEPT !.pc = "await", !.ntok = n,
                                                !.ticket = acquireCount + 1]]
  /\ acquireCount' = acquireCount + 1
  /\ UNCHANGED <<cfgVars, tokenizer, running, assignCount, ctorVars, mergeVars,
                 recVars>>

\* lines 279-294: splitText(text) finds the tokenizer set and runs on
SplitTextReuse(c) ==
  /\ running = 0 /\ calls[c].pc = "idle"
  /\ ~NeedsTokenizer(tokenizer)
  /\ \E n \in 0..MaxTokens :
       calls' = [calls EXCEPT ![c] = EnterLoop(@, n)]
  /\ running' = c
  /\ UNCHANGED <<cfgVars, tokenizer, acquireCount, assignCount, ctorVars,
                 mergeVars, recVars>>

\* lines 281-294: getEncoding resolves, the handle is assigned, the call runs on
AwaitResume(c) ==
  /\ running = 0 /\ calls[c].pc = "await"
  /\ tokenizer' = calls[c].ticket
  /\ assignCount' = assignCount + 1
  /\ calls' = [calls EXCEPT ![c] = EnterLoop(@, @.ntok)]
  /\ running' = c
  /\ UNCHANGED <<cfgVars, acquireCount, ctorVars, mergeVars, recVars>>

\* lines 296-302
WhileStep(c) ==
  /\ running = c /\ calls[c].pc = "loop"
  /\ LoopCond(calls[c].start_idx, Len(calls[c].input_ids))
  /\ LET call == calls[c]
         start == NextStart(call.start_idx, chunkSize, chunkOverlap)
         cur == Min2(start + chunkSize, Len(call.input_ids))
     IN calls' = [calls EXCEPT ![c] =
                    [call EXCEPT !.windows = Append(@, call.chunk_ids),
                                 !.start_idx = start, !.cur_idx = cur,
                                 !.chunk_ids = Slice(call.input_ids, start, cur)]]
  /\ UNCHANGED <<cfgVars, tokenizer, running, acquireCount, assignCount,
                 ctorVars, mergeVars, recVars>>

\* lines 296, 304
Return(c) ==
  /\ running = c /\ calls[c].pc = "loop"
  /\ ~LoopCond(calls[c].start_idx, Len(calls[c].input_ids))
  /\ calls' = [calls EXCEPT ![c] = [@ EXCEPT !.pc = "done"]]
  /\ running' = 0
  /\ UNCHANGED <<cfgVars, tokenizer, acquireCount, assignCount, ctorVars,
                 mergeVars, recVars>>

NextToken ==
  \E c \in Calls :
    \/ SplitTextAcquire(c)
    \/ SplitTextReuse(c)
    \/ AwaitResume(c)
    \/ WhileStep(c)
    \/ Return(c)

SpecToken == InitToken /\ [][NextToken]_vars

\* a started call runs to completion; a pending getEncoding resolves
FairSpecToken ==
  /\ SpecToken
  /\ \A c \in Calls :
       WF_vars(AwaitResume(c)) /\ WF_vars(WhileStep(c)) /\ WF_vars(Return(c))

CeilDiv(a, b) == 0 - ((0 - a) \div b)

\* C4 as stated: N > 0 tokens give
\* ceil((N - chunkOverlap) / (chunkSize - chunkOverlap)) windows.
C4_WindowCountClaimed ==
  \A c \in Calls :
    (calls[c].pc = "done" /\ calls[c].ntok > 0) =>
      Len(calls[c].windows)
        = CeilDiv(calls[c].ntok - chunkOverlap, chunkSize - chunkOverlap)

\* C4 amended: N > 0 tokens give ceil(N / (chunkSize - chunkOverlap)) windows.
C4_WindowCount ==
  \A c \in Calls :
    (calls[c].pc = "done" /\ calls[c].ntok > 0) =>
      Len(calls[c].windows) = CeilDiv(calls[c].ntok, chunkSize - chunkOverlap)

\* a finished call whose last window lies wholly inside the previous one
C4_Witness ==
  \E c \in Calls :
    /\ calls[c].pc = "done" /\ calls[c].ntok > 0 /\ chunkOverlap > 0
    /\ Len(calls[c].windows) >= 2
    /\ Len(calls[c].windows)
         # CeilDiv(calls[c].ntok - chunkOverlap, chunkSize - chunkOverlap)

WindowsOk(call) ==
  /\ \A k \in 1..Len(call.windows) :
       /\ call.windows[k] # <<>>
       /\ Len(call.windows[k]) <= chunkSize
       /\ Contiguous(call.windows[k])
  /\ call.windows # <<>> => call.windows[1][1] = 1
  /\ \A k \in 1..(Len(call.windows) - 1) :
       /\ call.windows[k + 1][1] <= Last(call.windows[k]) + 1
       /\ call.windows[k + 1][1] > call.windows[k][1]
  /\ call.pc = "done" =>
       /\ UNION {Range(call.windows[k]) : k \in 1..Len(call.windows)}
            = 1..call.ntok
       /\ call.ntok = 0 => call.windows = <<>>

\* C5: the window loop terminates; the windows are non-empty, hold at most
\* chunkSize tokens, skip no token between consecutive windows and together
\* cover every token; no token gives no chunk.
C5_WindowsCoverTokens ==
  /\ [](\A c \in Calls : WindowsOk(calls[c]))
  /\ \A c \in Calls : (calls[c].pc = "loop") ~> (calls[c].pc = "done")

\* a finished call with overlapping windows, the last one cut short by N
C5_Witness ==
  \E c \in Calls :
    /\ calls[c].pc = "done" /\ chunkOverlap > 0
    /\ Len(calls[c].windows) >= 3
    /\ Len(Last(calls[c].windows)) < chunkSize

Awaiting == {c \in Calls : calls[c].pc = "await"}

\* C9 as stated: getEncoding is invoked exactly once on the instance, and the
\* handle, once set, is never assigned again.
C9_AcquiredOnce ==
  /\ acquireCount <= 1
  /\ assignCount <= 1
  /\ (\E c \in Calls : calls[c].pc # "idle") => acquireCount = 1

\* C9 amended: getEncoding is invoked once by each splitText call that starts
\* while the handle is unset, and by no call that starts once it is set; each
\* pending acquisition assigns the handle when it resolves, and the handle,
\* once set, is never unset.
C9_AcquireInv ==
  /\ acquireCount = assignCount + Cardinality(Awaiting)
  /\ tokenizer = 0 <=> assignCount = 0
  /\ (\E c \in Calls : calls[c].pc # "idle") => acquireCount >= 1

C9_AcquiredWhileUnset ==
  /\ []C9_AcquireInv
  /\ [][/\ acquireCount' # acquireCount => tokenizer = 0
        /\ tokenizer # 0 => tokenizer' # 0]_vars

\* two calls started before the first acquisition resolved, a later one reused
C9_Witness ==
  /\ acquireCount = 2 /\ assignCount = 2
  /\ \A c \in Calls : calls[c].pc = "done"

====
